---- MODULE Spec2Model ----
(***************************************************************************)
(* A model of the lock-free binary search tree of package bst.             *)
(*                                                                         *)
(* The heap is a pair of growing sequences: nodes[i] is the Node allocated *)
(* i-th (its Key pointer and its Left/Right slots), keys[i] the Key record *)
(* allocated with it (K, Values and the state of its Latch).  0 is nil.    *)
(* Every goroutine is a process p with a program counter pc[p]; one action *)
(* is one statement of the source that reads or writes shared memory.      *)
(* Line numbers are those of the complete source file of the package.      *)
(***************************************************************************)
EXTENDS Integers, Sequences, FiniteSets, TLC

\* ------------------------------------------------------------------ bounds
NumKeys == 4
NumVals == 2
MaxPuts == 4
NumProcs == 2
MaxConcPuts == 3
MaxFill == 4

\* The i-th byte string over the bytes {1, 2}, in length-then-value order:
\* <<>>, <<1>>, <<2>>, <<1,1>>, <<1,2>>, ...
RECURSIVE KeyOf(_)
KeyOf(i) ==
    IF i = 0 THEN <<>>
    ELSE LET d == ((i - 1) % 2) + 1 IN Append(KeyOf((i - d) \div 2), d)

Keys == {KeyOf(i) : i \in 0..(NumKeys - 1)}
Vals == {KeyOf(i) : i \in 1..NumVals}
Procs == 1..NumProcs

\* The value a goroutine writes in the concurrent runs ("value-<goroutine>").
ValOf(p) == KeyOf(p)

\* A comparison that ends where the shorter key ends: a key equals its prefixes
RECURSIVE ComparePrefixEqual(_, _)
ComparePrefixEqual(a, b) ==
    IF a = <<>> \/ b = <<>> THEN 0
    ELSE IF Head(a) < Head(b) THEN -1
    ELSE IF Head(a) > Head(b) THEN 1
    ELSE ComparePrefixEqual(Tail(a), Tail(b))

\* bytes.Compare: -1, 0 or 1 by byte-lexicographic order.
RECURSIVE Compare(_, _)
Compare(a, b) ==
    IF a = <<>> /\ b = <<>> THEN 0
    ELSE IF a = <<>> THEN -1
    ELSE IF b = <<>> THEN 1
    ELSE IF Head(a) < Head(b) THEN -1
    ELSE IF Head(a) > Head(b) THEN 1
    ELSE Compare(Tail(a), Tail(b))

\* ------------------------------------------------------------------- state
VARIABLES
    Root,    \* BST.Root
    nodes,   \* the Node structs, by allocation order
    keys,    \* the Key structs, by allocation order
    pc,      \* per process: the statement it is at
    key,     \* per process: the key argument of the running call
    val,     \* per process: the value argument of the running call
    newNode, \* per process: Put's newNode
    cur,     \* per process: the node argument of put / get / remove
    stack,   \* per process: the activation records of delete
    rv,      \* per process: the value returned by the op delete / Get
    op,      \* per process: the name of the running call ("" when idle)
    hist,    \* the Put and Delete calls that returned in a concurrent run
    ref,     \* reference map of a sequential run
    phase,   \* "seq": one caller; "fill": a tree is being pre-filled; "run": concurrent callers
    pre,     \* the tree as it was when the running call of a sequential run was made
    retries  \* per process: how often the running Put went around its loop again (line 53)

vars == <<Root, nodes, keys, pc, key, val, newNode, cur, stack, rv, op, hist, ref, phase, pre, retries>>

Nil == 0

Node(k, l, r) == [Key |-> k, Left |-> l, Right |-> r]
Key(k, vs) == [K |-> k, Values |-> vs, Latch |-> FALSE]

\* node.Key.K for a node pointer
KeyK(n) == keys[nodes[n].Key].K

NoRef == [k \in Keys |-> [present |-> FALSE, values |-> <<>>]]

\* The tree: the root slot and the heap
Tree == [Root |-> Root, nodes |-> nodes, keys |-> keys]
NoTree == [Root |-> Nil, nodes |-> <<>>, keys |-> <<>>]

InitIn(ph) ==
    /\ Root = Nil
    /\ nodes = <<>>
    /\ keys = <<>>
    /\ pc = [p \in Procs |-> "idle"]
    /\ key = [p \in Procs |-> <<>>]
    /\ val = [p \in Procs |-> <<>>]
    /\ newNode = [p \in Procs |-> Nil]
    /\ cur = [p \in Procs |-> Nil]
    /\ stack = [p \in Procs |-> <<>>]
    /\ rv = [p \in Procs |-> Nil]
    /\ op = [p \in Procs |-> ""]
    /\ hist = {}
    /\ ref = NoRef
    /\ phase = ph
    /\ pre = NoTree
    /\ retries = [p \in Procs |-> 0]

\* A call returns: its result is in rv and the call is recorded.
Return(p, o) ==
    /\ pc' = [pc EXCEPT ![p] = "done"]
    /\ hist' = IF phase = "run" /\ o \in {"Put", "Delete"}
               THEN hist \cup {[op |-> o, key |-> key[p], val |-> val[p]]}
               ELSE hist
    /\ UNCHANGED op
    /\ newNode' = [newNode EXCEPT ![p] = Nil]
    /\ cur' = [cur EXCEPT ![p] = Nil]

Goto(p, l) == pc' = [pc EXCEPT ![p] = l]

\* A call starts: its name and arguments
Call(p, o, k, v, l) ==
    /\ pc[p] = "idle"
    /\ op' = [op EXCEPT ![p] = o]
    /\ key' = [key EXCEPT ![p] = k]
    /\ val' = [val EXCEPT ![p] = v]
    /\ Goto(p, l)
    /\ UNCHANGED retries

\* The nodes reachable from n over at most d links
RECURSIVE Reach(_, _)
Reach(n, d) ==
    IF n = Nil \/ d = 0 THEN {}
    ELSE {n} \cup Reach(nodes[n].Left, d - 1) \cup Reach(nodes[n].Right, d - 1)

\* The nodes of the tree
Live == Reach(Root, Len(nodes))

\* The Key records of the tree
LiveKeys == {nodes[n].Key : n \in Live}

\* Memory is garbage collected: a Node or Key that neither the tree nor a
\* running call refers to is gone (its cell is zeroed and never used again).
Quiet(p) == \A q \in Procs \ {p} : pc[q] = "idle"

Collected(p) ==
    /\ nodes' = IF Quiet(p)
                THEN [n \in DOMAIN nodes |-> IF n \in Live THEN nodes[n] ELSE Node(Nil, Nil, Nil)]
                ELSE nodes
    /\ keys' = IF Quiet(p)
               THEN [k \in DOMAIN keys |-> IF k \in LiveKeys THEN keys[k] ELSE Key(<<>>, <<>>)]
               ELSE keys

\* The caller has taken the result and goes on
Returned(p) ==
    /\ pc[p] = "done"
    /\ pc' = [pc EXCEPT ![p] = "idle"]
    /\ op' = [op EXCEPT ![p] = ""]
    /\ key' = [key EXCEPT ![p] = <<>>]
    /\ val' = [val EXCEPT ![p] = <<>>]
    /\ rv' = [rv EXCEPT ![p] = Nil]
    /\ Collected(p)
    /\ pre' = NoTree
    /\ retries' = [retries EXCEPT ![p] = 0]
    /\ UNCHANGED <<Root, newNode, cur, stack, hist, ref, phase>>

\* --------------------------------------------------------------------- Put
\* Put, line 52: newNode := &Node{Key: &Key{K: key, Values: [][]byte{value}, ...}}
PutCall(p, k, v) ==
    /\ Call(p, "Put", k, v, "PutLoadRoot")
    /\ nodes' = Append(nodes, Node(Len(nodes) + 1, Nil, Nil))
    /\ keys' = Append(keys, Key(k, <<v>>))
    /\ newNode' = [newNode EXCEPT ![p] = Len(nodes) + 1]
    /\ UNCHANGED <<Root, cur, stack, rv, hist>>

\* Put, lines 54-55 and 60: root := atomic.LoadPointer(&bst.Root)
PutLoadRoot(p) ==
    /\ pc[p] = "PutLoadRoot"
    /\ IF Root = Nil
       THEN Goto(p, "PutCasRoot") /\ UNCHANGED cur
       ELSE Goto(p, "putCmpLess") /\ cur' = [cur EXCEPT ![p] = Root]
    /\ UNCHANGED <<Root, nodes, keys, key, val, newNode, stack, rv, op, hist, ref, phase, pre, retries>>

\* A Put that stores into the root slot without comparing it with nil
PutStoreRoot(p) ==
    /\ pc[p] = "PutCasRoot"
    /\ Root' = newNode[p]
    /\ Return(p, "Put")
    /\ UNCHANGED <<nodes, keys, key, val, stack, rv, ref, phase, pre, retries>>

\* Put, lines 56-58: CompareAndSwapPointer(&bst.Root, nil, newNode)
PutCasRoot(p) ==
    /\ pc[p] = "PutCasRoot"
    /\ IF Root = Nil
       THEN /\ Root' = newNode[p]
            /\ Return(p, "Put")
            /\ UNCHANGED retries
       ELSE /\ Goto(p, "PutLoadRoot")
            /\ retries' = [retries EXCEPT ![p] = @ + 1]
            /\ UNCHANGED <<Root, op, hist, newNode, cur>>
    /\ UNCHANGED <<nodes, keys, key, val, stack, rv, ref, phase, pre>>

\* A put that takes the left branch for the greater key
putCmpLessFlipped(p) ==
    /\ pc[p] = "putCmpLess"
    /\ IF Compare(key[p], KeyK(cur[p])) > 0
       THEN Goto(p, "putLoadLeft")
       ELSE Goto(p, "putCmpGreater")
    /\ UNCHANGED <<Root, nodes, keys, key, val, newNode, cur, stack, rv, op, hist, ref, phase, pre, retries>>

\* put, line 71: if bytes.Compare(newNode.Key.K, root.Key.K) < 0
putCmpLess(p) ==
    /\ pc[p] = "putCmpLess"
    /\ IF Compare(key[p], KeyK(cur[p])) < 0
       THEN Goto(p, "putLoadLeft")
       ELSE Goto(p, "putCmpGreater")
    /\ UNCHANGED <<Root, nodes, keys, key, val, newNode, cur, stack, rv, op, hist, ref, phase, pre, retries>>

\* put, line 80: else if bytes.Compare(newNode.Key.K, root.Key.K) > 0
putCmpGreater(p) ==
    /\ pc[p] = "putCmpGreater"
    /\ IF Compare(key[p], KeyK(cur[p])) > 0
       THEN Goto(p, "putLoadRight")
       ELSE Goto(p, "putLock")
    /\ UNCHANGED <<Root, nodes, keys, key, val, newNode, cur, stack, rv, op, hist, ref, phase, pre, retries>>

\* put, lines 72-73 and 78: left := atomic.LoadPointer(&root.Left)
putLoadLeft(p) ==
    /\ pc[p] = "putLoadLeft"
    /\ IF nodes[cur[p]].Left = Nil
       THEN Goto(p, "putCasLeft") /\ UNCHANGED cur
       ELSE Goto(p, "putCmpLess") /\ cur' = [cur EXCEPT ![p] = nodes[cur[p]].Left]
    /\ UNCHANGED <<Root, nodes, keys, key, val, newNode, stack, rv, op, hist, ref, phase, pre, retries>>

\* A put that stores into the left slot without comparing it with nil
putStoreLeft(p) ==
    /\ pc[p] = "putCasLeft"
    /\ nodes' = [nodes EXCEPT ![cur[p]].Left = newNode[p]]
    /\ Return(p, "Put")
    /\ UNCHANGED <<Root, keys, key, val, stack, rv, ref, phase, pre, retries>>

\* A put that tries its CAS on the left slot again and again, also when the
\* slot is taken
putCasLeftSpin(p) ==
    /\ pc[p] = "putCasLeft"
    /\ IF nodes[cur[p]].Left = Nil
       THEN /\ nodes' = [nodes EXCEPT ![cur[p]].Left = newNode[p]]
            /\ Return(p, "Put")
       ELSE UNCHANGED <<nodes, pc, op, hist, newNode, cur>>
    /\ UNCHANGED <<Root, keys, key, val, stack, rv, ref, phase, pre, retries>>

\* put, lines 74-76 and 99: CompareAndSwapPointer(&root.Left, nil, newNode);
\* on failure put returns false and Put goes around its loop (line 53).
putCasLeft(p) ==
    /\ pc[p] = "putCasLeft"
    /\ IF nodes[cur[p]].Left = Nil
       THEN /\ nodes' = [nodes EXCEPT ![cur[p]].Left = newNode[p]]
            /\ Return(p, "Put")
            /\ UNCHANGED retries
       ELSE /\ Goto(p, "PutLoadRoot")
            /\ cur' = [cur EXCEPT ![p] = Nil]
            /\ retries' = [retries EXCEPT ![p] = @ + 1]
            /\ UNCHANGED <<nodes, op, hist, newNode>>
    /\ UNCHANGED <<Root, keys, key, val, stack, rv, ref, phase, pre>>

\* put, lines 81-82 and 87: right := atomic.LoadPointer(&root.Right)
putLoadRight(p) ==
    /\ pc[p] = "putLoadRight"
    /\ IF nodes[cur[p]].Right = Nil
       THEN Goto(p, "putCasRight") /\ UNCHANGED cur
       ELSE Goto(p, "putCmpLess") /\ cur' = [cur EXCEPT ![p] = nodes[cur[p]].Right]
    /\ UNCHANGED <<Root, nodes, keys, key, val, newNode, stack, rv, op, hist, ref, phase, pre, retries>>

\* A put that stores into the right slot without comparing it with nil
putStoreRight(p) ==
    /\ pc[p] = "putCasRight"
    /\ nodes' = [nodes EXCEPT ![cur[p]].Right = newNode[p]]
    /\ Return(p, "Put")
    /\ UNCHANGED <<Root, keys, key, val, stack, rv, ref, phase, pre, retries>>

\* A put that goes on into the right child when its CAS on the slot failed
putCasRightDescend(p) ==
    /\ pc[p] = "putCasRight"
    /\ IF nodes[cur[p]].Right = Nil
       THEN /\ nodes' = [nodes EXCEPT ![cur[p]].Right = newNode[p]]
            /\ Return(p, "Put")
            /\ UNCHANGED retries
       ELSE /\ Goto(p, "putCmpLess")
            /\ cur' = [cur EXCEPT ![p] = nodes[cur[p]].Right]
            /\ retries' = [retries EXCEPT ![p] = @ + 1]
            /\ UNCHANGED <<nodes, op, hist, newNode>>
    /\ UNCHANGED <<Root, keys, key, val, stack, rv, ref, phase, pre>>

\* put, lines 83-85 and 99: CompareAndSwapPointer(&root.Right, nil, newNode)
putCasRight(p) ==
    /\ pc[p] = "putCasRight"
    /\ IF nodes[cur[p]].Right = Nil
       THEN /\ nodes' = [nodes EXCEPT ![cur[p]].Right = newNode[p]]
            /\ Return(p, "Put")
            /\ UNCHANGED retries
       ELSE /\ Goto(p, "PutLoadRoot")
            /\ cur' = [cur EXCEPT ![p] = Nil]
            /\ retries' = [retries EXCEPT ![p] = @ + 1]
            /\ UNCHANGED <<nodes, op, hist, newNode>>
    /\ UNCHANGED <<Root, keys, key, val, stack, rv, ref, phase, pre>>

\* A put that takes the latch without waiting for it
putLockBarging(p) ==
    /\ pc[p] = "putLock"
    /\ keys' = [keys EXCEPT ![nodes[cur[p]].Key].Latch = TRUE]
    /\ Goto(p, "putAppend")
    /\ UNCHANGED <<Root, nodes, key, val, newNode, cur, stack, rv, op, hist, ref, phase, pre, retries>>

\* put, line 92: root.Key.Latch.Lock() blocks while the latch is held
putLock(p) ==
    /\ pc[p] = "putLock"
    /\ ~keys[nodes[cur[p]].Key].Latch
    /\ keys' = [keys EXCEPT ![nodes[cur[p]].Key].Latch = TRUE]
    /\ Goto(p, "putAppend")
    /\ UNCHANGED <<Root, nodes, key, val, newNode, cur, stack, rv, op, hist, ref, phase, pre, retries>>

\* A put that adds the value at the front of Values
putPrepend(p) ==
    /\ pc[p] = "putAppend"
    /\ keys' = [keys EXCEPT ![nodes[cur[p]].Key].Values =
                   <<keys[nodes[newNode[p]].Key].Values[1]>> \o @]
    /\ Goto(p, "putUnlock")
    /\ UNCHANGED <<Root, nodes, key, val, newNode, cur, stack, rv, op, hist, ref, phase, pre, retries>>

\* A put that replaces the Values of the key by the new value
putReplaceValues(p) ==
    /\ pc[p] = "putAppend"
    /\ keys' = [keys EXCEPT ![nodes[cur[p]].Key].Values = keys[nodes[newNode[p]].Key].Values]
    /\ Goto(p, "putUnlock")
    /\ UNCHANGED <<Root, nodes, key, val, newNode, cur, stack, rv, op, hist, ref, phase, pre, retries>>

\* put, line 94: root.Key.Values = append(root.Key.Values, newNode.Key.Values[0])
putAppend(p) ==
    /\ pc[p] = "putAppend"
    /\ keys' = [keys EXCEPT ![nodes[cur[p]].Key].Values =
                   Append(@, keys[nodes[newNode[p]].Key].Values[1])]
    /\ Goto(p, "putUnlock")
    /\ UNCHANGED <<Root, nodes, key, val, newNode, cur, stack, rv, op, hist, ref, phase, pre, retries>>

\* put, lines 95-97: root.Key.Latch.Unlock(); return true.  Unlocking a mutex
\* that is not locked is a fatal error of the Go runtime.
putUnlock(p) ==
    /\ pc[p] = "putUnlock"
    /\ IF keys[nodes[cur[p]].Key].Latch
       THEN /\ keys' = [keys EXCEPT ![nodes[cur[p]].Key].Latch = FALSE]
            /\ Return(p, "Put")
       ELSE /\ Goto(p, "panic")
            /\ UNCHANGED <<keys, op, hist, newNode, cur>>
    /\ UNCHANGED <<Root, nodes, key, val, stack, rv, ref, phase, pre, retries>>

put(p) ==
    \/ putCmpLess(p) \/ putCmpGreater(p)
    \/ putLoadLeft(p) \/ putCasLeft(p)
    \/ putLoadRight(p) \/ putCasRight(p)
    \/ putLock(p) \/ putAppend(p) \/ putUnlock(p)

Put(p) == PutLoadRoot(p) \/ PutCasRoot(p) \/ put(p)

\* --------------------------------------------------------------------- Get
\* A get that does not return a Key whose Values are empty
RECURSIVE getHidesEmpty(_, _)
getHidesEmpty(node, k) ==
    IF node = Nil THEN Nil
    ELSE IF Compare(k, KeyK(node)) < 0 THEN getHidesEmpty(nodes[node].Left, k)
    ELSE IF Compare(k, KeyK(node)) > 0 THEN getHidesEmpty(nodes[node].Right, k)
    ELSE IF keys[nodes[node].Key].Values = <<>> THEN Nil
    ELSE nodes[node].Key

\* get on a tree no writer is touching: the record get(node, key) returns.
RECURSIVE get(_, _)
get(node, k) ==
    IF node = Nil THEN Nil
    ELSE IF Compare(k, KeyK(node)) < 0 THEN get(nodes[node].Left, k)
    ELSE IF Compare(k, KeyK(node)) > 0 THEN get(nodes[node].Right, k)
    ELSE nodes[node].Key

\* Get on a tree no writer is touching
Get(k) == get(Root, k)

\* Get, lines 103-106 and 110-112: root := atomic.LoadPointer(&bst.Root); get(root, key)
GetCall(p, k) ==
    /\ Call(p, "Get", k, <<>>, "GetLoadRoot")
    /\ UNCHANGED <<Root, nodes, keys, newNode, cur, stack, rv, hist>>

GetLoadRoot(p) ==
    /\ pc[p] = "GetLoadRoot"
    /\ IF Root = Nil
       THEN /\ rv' = [rv EXCEPT ![p] = Nil]
            /\ Return(p, "Get")
       ELSE /\ Goto(p, "getCmpLess")
            /\ cur' = [cur EXCEPT ![p] = Root]
            /\ UNCHANGED <<op, hist, newNode, rv>>
    /\ UNCHANGED <<Root, nodes, keys, key, val, stack, ref, phase, pre, retries>>

\* get, line 114: if bytes.Compare(key, node.Key.K) < 0
getCmpLess(p) ==
    /\ pc[p] = "getCmpLess"
    /\ IF Compare(key[p], KeyK(cur[p])) < 0
       THEN Goto(p, "getLeft")
       ELSE Goto(p, "getCmpGreater")
    /\ UNCHANGED <<Root, nodes, keys, key, val, newNode, cur, stack, rv, op, hist, ref, phase, pre, retries>>

\* A get that does not look into the left subtree
getLeftGivesUp(p) ==
    /\ pc[p] = "getLeft"
    /\ rv' = [rv EXCEPT ![p] = Nil]
    /\ Return(p, "Get")
    /\ UNCHANGED <<Root, nodes, keys, key, val, stack, ref, phase, pre, retries>>

\* get, lines 115 and 110-112: return bst.get((*Node)(node.Left), key)
getLeft(p) ==
    /\ pc[p] = "getLeft"
    /\ IF nodes[cur[p]].Left = Nil
       THEN /\ rv' = [rv EXCEPT ![p] = Nil]
            /\ Return(p, "Get")
       ELSE /\ Goto(p, "getCmpLess")
            /\ cur' = [cur EXCEPT ![p] = nodes[cur[p]].Left]
            /\ UNCHANGED <<op, hist, newNode, rv>>
    /\ UNCHANGED <<Root, nodes, keys, key, val, stack, ref, phase, pre, retries>>

\* get, line 116: else if bytes.Compare(key, node.Key.K) > 0
getCmpGreater(p) ==
    /\ pc[p] = "getCmpGreater"
    /\ IF Compare(key[p], KeyK(cur[p])) > 0
       THEN Goto(p, "getRight")
       ELSE Goto(p, "getKey")
    /\ UNCHANGED <<Root, nodes, keys, key, val, newNode, cur, stack, rv, op, hist, ref, phase, pre, retries>>

\* A get that descends into the left child for the greater key
getRightWrongChild(p) ==
    /\ pc[p] = "getRight"
    /\ IF nodes[cur[p]].Left = Nil
       THEN /\ rv' = [rv EXCEPT ![p] = Nil]
            /\ Return(p, "Get")
       ELSE /\ Goto(p, "getCmpLess")
            /\ cur' = [cur EXCEPT ![p] = nodes[cur[p]].Left]
            /\ UNCHANGED <<op, hist, newNode, rv>>
    /\ UNCHANGED <<Root, nodes, keys, key, val, stack, ref, phase, pre, retries>>

\* get, lines 117 and 110-112: return bst.get((*Node)(node.Right), key)
getRight(p) ==
    /\ pc[p] = "getRight"
    /\ IF nodes[cur[p]].Right = Nil
       THEN /\ rv' = [rv EXCEPT ![p] = Nil]
            /\ Return(p, "Get")
       ELSE /\ Goto(p, "getCmpLess")
            /\ cur' = [cur EXCEPT ![p] = nodes[cur[p]].Right]
            /\ UNCHANGED <<op, hist, newNode, rv>>
    /\ UNCHANGED <<Root, nodes, keys, key, val, stack, ref, phase, pre, retries>>

\* get, line 120: return node.Key
getKey(p) ==
    /\ pc[p] = "getKey"
    /\ rv' = [rv EXCEPT ![p] = nodes[cur[p]].Key]
    /\ Return(p, "Get")
    /\ UNCHANGED <<Root, nodes, keys, key, val, stack, ref, phase, pre, retries>>

GetSteps(p) ==
    \/ GetLoadRoot(p)
    \/ getCmpLess(p) \/ getLeft(p)
    \/ getCmpGreater(p) \/ getRight(p)
    \/ getKey(p)

\* ------------------------------------------------------------------ Remove
\* remove, lines 141-146: the first element equal to value is cut out
RECURSIVE spliceFirst(_, _)
spliceFirst(vs, v) ==
    IF vs = <<>> THEN <<>>
    ELSE IF Compare(Head(vs), v) = 0 THEN Tail(vs)
    ELSE <<Head(vs)>> \o spliceFirst(Tail(vs), v)

RemoveCall(p, k, v) ==
    /\ Call(p, "Remove", k, v, "RemoveLoadRoot")
    /\ UNCHANGED <<Root, nodes, keys, newNode, cur, stack, rv, hist>>

\* Remove, lines 124-127 and 131-133
RemoveLoadRoot(p) ==
    /\ pc[p] = "RemoveLoadRoot"
    /\ IF Root = Nil
       THEN Return(p, "Remove")
       ELSE /\ Goto(p, "removeCmpLess")
            /\ cur' = [cur EXCEPT ![p] = Root]
            /\ UNCHANGED <<op, hist, newNode>>
    /\ UNCHANGED <<Root, nodes, keys, key, val, stack, rv, ref, phase, pre, retries>>

\* remove, line 135
removeCmpLess(p) ==
    /\ pc[p] = "removeCmpLess"
    /\ IF Compare(key[p], KeyK(cur[p])) < 0
       THEN Goto(p, "removeLeft")
       ELSE Goto(p, "removeCmpGreater")
    /\ UNCHANGED <<Root, nodes, keys, key, val, newNode, cur, stack, rv, op, hist, ref, phase, pre, retries>>

\* remove, lines 136 and 131-133
removeLeft(p) ==
    /\ pc[p] = "removeLeft"
    /\ IF nodes[cur[p]].Left = Nil
       THEN Return(p, "Remove")
       ELSE /\ Goto(p, "removeCmpLess")
            /\ cur' = [cur EXCEPT ![p] = nodes[cur[p]].Left]
            /\ UNCHANGED <<op, hist, newNode>>
    /\ UNCHANGED <<Root, nodes, keys, key, val, stack, rv, ref, phase, pre, retries>>

\* remove, line 137
removeCmpGreater(p) ==
    /\ pc[p] = "removeCmpGreater"
    /\ IF Compare(key[p], KeyK(cur[p])) > 0
       THEN Goto(p, "removeRight")
       ELSE Goto(p, "removeLock")
    /\ UNCHANGED <<Root, nodes, keys, key, val, newNode, cur, stack, rv, op, hist, ref, phase, pre, retries>>

\* remove, lines 138 and 131-133
removeRight(p) ==
    /\ pc[p] = "removeRight"
    /\ IF nodes[cur[p]].Right = Nil
       THEN Return(p, "Remove")
       ELSE /\ Goto(p, "removeCmpLess")
            /\ cur' = [cur EXCEPT ![p] = nodes[cur[p]].Right]
            /\ UNCHANGED <<op, hist, newNode>>
    /\ UNCHANGED <<Root, nodes, keys, key, val, stack, rv, ref, phase, pre, retries>>

\* remove, line 140: node.Key.Latch.Lock()
removeLock(p) ==
    /\ pc[p] = "removeLock"
    /\ ~keys[nodes[cur[p]].Key].Latch
    /\ keys' = [keys EXCEPT ![nodes[cur[p]].Key].Latch = TRUE]
    /\ Goto(p, "removeSplice")
    /\ UNCHANGED <<Root, nodes, key, val, newNode, cur, stack, rv, op, hist, ref, phase, pre, retries>>

\* A remove that cuts out every element equal to value
removeSpliceAll(p) ==
    /\ pc[p] = "removeSplice"
    /\ keys' = [keys EXCEPT ![nodes[cur[p]].Key].Values = SelectSeq(@, LAMBDA x : x # val[p])]
    /\ Goto(p, "removeUnlock")
    /\ UNCHANGED <<Root, nodes, key, val, newNode, cur, stack, rv, op, hist, ref, phase, pre, retries>>

\* remove, lines 141-146: the scan-and-splice loop, run under the latch
removeSplice(p) ==
    /\ pc[p] = "removeSplice"
    /\ keys' = [keys EXCEPT ![nodes[cur[p]].Key].Values = spliceFirst(@, val[p])]
    /\ Goto(p, "removeUnlock")
    /\ UNCHANGED <<Root, nodes, key, val, newNode, cur, stack, rv, op, hist, ref, phase, pre, retries>>

\* remove, line 147: node.Key.Latch.Unlock()
removeUnlock(p) ==
    /\ pc[p] = "removeUnlock"
    /\ IF keys[nodes[cur[p]].Key].Latch
       THEN /\ keys' = [keys EXCEPT ![nodes[cur[p]].Key].Latch = FALSE]
            /\ Return(p, "Remove")
       ELSE /\ Goto(p, "panic")
            /\ UNCHANGED <<keys, op, hist, newNode, cur>>
    /\ UNCHANGED <<Root, nodes, key, val, stack, rv, ref, phase, pre, retries>>

Remove(p) ==
    \/ RemoveLoadRoot(p)
    \/ removeCmpLess(p) \/ removeLeft(p)
    \/ removeCmpGreater(p) \/ removeRight(p)
    \/ removeLock(p) \/ removeSplice(p) \/ removeUnlock(p)

\* ------------------------------------------------------------------ Delete
\* The activation record of one call of delete: its node and key arguments,
\* minNode (also minValueNode's current), a value loaded and not yet stored,
\* and the statement of the caller the call returns to.
Frame(n, k, ret) == [node |-> n, key |-> k, min |-> Nil, tmp |-> Nil, ret |-> ret]

Top(p) == stack[p][Len(stack[p])]

SetTop(p, f) == stack' = [stack EXCEPT ![p][Len(stack[p])] = f]

\* delete, lines 159-162: bst.delete(n, k) is called; a nil node returns nil
\* at once, to the statement ret of the caller.
CallDelete(p, n, k, ret, callerTmp) ==
    IF n = Nil
    THEN /\ rv' = [rv EXCEPT ![p] = Nil]
         /\ Goto(p, ret)
         /\ stack' = IF stack[p] = <<>> THEN stack
                     ELSE [stack EXCEPT ![p][Len(stack[p])].tmp = callerTmp]
    ELSE /\ stack' = [stack EXCEPT ![p] =
                         (IF @ = <<>> THEN @ ELSE [@ EXCEPT ![Len(@)].tmp = callerTmp])
                         \o <<Frame(n, k, ret)>>]
         /\ Goto(p, "delCmpLess")
         /\ UNCHANGED rv

\* delete returns n to its caller
ReturnDelete(p, n) ==
    /\ rv' = [rv EXCEPT ![p] = n]
    /\ Goto(p, Top(p).ret)
    /\ stack' = [stack EXCEPT ![p] = SubSeq(@, 1, Len(@) - 1)]

DeleteCall(p, k) ==
    /\ Call(p, "Delete", k, <<>>, "DeleteLoadRoot")
    /\ UNCHANGED <<Root, nodes, keys, newNode, cur, stack, rv, hist>>

\* Delete, lines 153-154: root := atomic.LoadPointer(&bst.Root); bst.delete(root, key)
DeleteLoadRoot(p) ==
    /\ pc[p] = "DeleteLoadRoot"
    /\ CallDelete(p, Root, key[p], "DeleteStoreRoot", Nil)
    /\ UNCHANGED <<Root, nodes, keys, key, val, newNode, cur, op, hist, ref, phase, pre, retries>>

\* A Delete that does not store the new root
DeleteKeepRoot(p) ==
    /\ pc[p] = "DeleteStoreRoot"
    /\ Return(p, "Delete")
    /\ UNCHANGED <<Root, nodes, keys, key, val, stack, rv, ref, phase, pre, retries>>

\* Delete, line 155: atomic.StorePointer(&bst.Root, newRoot)
DeleteStoreRoot(p) ==
    /\ pc[p] = "DeleteStoreRoot"
    /\ Root' = rv[p]
    /\ Return(p, "Delete")
    /\ UNCHANGED <<nodes, keys, key, val, stack, rv, ref, phase, pre, retries>>

\* delete, line 164: if bytes.Compare(key, node.Key.K) < 0
delCmpLess(p) ==
    /\ pc[p] = "delCmpLess"
    /\ IF Compare(Top(p).key, KeyK(Top(p).node)) < 0
       THEN Goto(p, "delLeftLoad")
       ELSE Goto(p, "delCmpGreater")
    /\ UNCHANGED <<Root, nodes, keys, key, val, newNode, cur, stack, rv, op, hist, ref, phase, pre, retries>>

\* delete, line 165: the argument node.Left is read and delete is called on it
delLeftLoad(p) ==
    /\ pc[p] = "delLeftLoad"
    /\ CallDelete(p, nodes[Top(p).node].Left, Top(p).key, "delLeftStore", Nil)
    /\ UNCHANGED <<Root, nodes, keys, key, val, newNode, cur, op, hist, ref, phase, pre, retries>>

\* A delete that stores the result for the left subtree in node.Right
delLeftStoreCrossed(p) ==
    /\ pc[p] = "delLeftStore"
    /\ nodes' = [nodes EXCEPT ![Top(p).node].Right = rv[p]]
    /\ ReturnDelete(p, Top(p).node)
    /\ UNCHANGED <<Root, keys, key, val, newNode, cur, op, hist, ref, phase, pre, retries>>

\* delete, lines 165 and 185: node.Left = <the result>; return node
delLeftStore(p) ==
    /\ pc[p] = "delLeftStore"
    /\ nodes' = [nodes EXCEPT ![Top(p).node].Left = rv[p]]
    /\ ReturnDelete(p, Top(p).node)
    /\ UNCHANGED <<Root, keys, key, val, newNode, cur, op, hist, ref, phase, pre, retries>>

\* delete, line 166: else if bytes.Compare(key, node.Key.K) > 0
delCmpGreater(p) ==
    /\ pc[p] = "delCmpGreater"
    /\ IF Compare(Top(p).key, KeyK(Top(p).node)) > 0
       THEN Goto(p, "delRightLoad")
       ELSE Goto(p, "delLeftNil")
    /\ UNCHANGED <<Root, nodes, keys, key, val, newNode, cur, stack, rv, op, hist, ref, phase, pre, retries>>

\* delete, line 167: the argument node.Right is read and delete is called on it
delRightLoad(p) ==
    /\ pc[p] = "delRightLoad"
    /\ CallDelete(p, nodes[Top(p).node].Right, Top(p).key, "delRightStore", Nil)
    /\ UNCHANGED <<Root, nodes, keys, key, val, newNode, cur, op, hist, ref, phase, pre, retries>>

\* A delete that stores the node itself in its right slot
delRightStoreSelf(p) ==
    /\ pc[p] = "delRightStore"
    /\ nodes' = [nodes EXCEPT ![Top(p).node].Right = Top(p).node]
    /\ ReturnDelete(p, Top(p).node)
    /\ UNCHANGED <<Root, keys, key, val, newNode, cur, op, hist, ref, phase, pre, retries>>

\* delete, lines 167 and 185: node.Right = <the result>; return node
delRightStore(p) ==
    /\ pc[p] = "delRightStore"
    /\ nodes' = [nodes EXCEPT ![Top(p).node].Right = rv[p]]
    /\ ReturnDelete(p, Top(p).node)
    /\ UNCHANGED <<Root, keys, key, val, newNode, cur, op, hist, ref, phase, pre, retries>>

\* delete, line 170: if node.Left == nil
delLeftNil(p) ==
    /\ pc[p] = "delLeftNil"
    /\ IF nodes[Top(p).node].Left = Nil
       THEN Goto(p, "delRetRight")
       ELSE Goto(p, "delRightNil")
    /\ UNCHANGED <<Root, nodes, keys, key, val, newNode, cur, stack, rv, op, hist, ref, phase, pre, retries>>

\* A delete that returns the node itself where it should return its right child
delRetSelf(p) ==
    /\ pc[p] = "delRetRight"
    /\ ReturnDelete(p, Top(p).node)
    /\ UNCHANGED <<Root, nodes, keys, key, val, newNode, cur, op, hist, ref, phase, pre, retries>>

\* delete, line 171: return (*Node)(node.Right)
delRetRight(p) ==
    /\ pc[p] = "delRetRight"
    /\ ReturnDelete(p, nodes[Top(p).node].Right)
    /\ UNCHANGED <<Root, nodes, keys, key, val, newNode, cur, op, hist, ref, phase, pre, retries>>

\* delete, line 172: else if node.Right == nil
delRightNil(p) ==
    /\ pc[p] = "delRightNil"
    /\ IF nodes[Top(p).node].Right = Nil
       THEN Goto(p, "delRetLeft")
       ELSE Goto(p, "delMinArg")
    /\ UNCHANGED <<Root, nodes, keys, key, val, newNode, cur, stack, rv, op, hist, ref, phase, pre, retries>>

\* A delete that returns the (nil) right child where it should return the left one
delRetLeftLost(p) ==
    /\ pc[p] = "delRetLeft"
    /\ ReturnDelete(p, nodes[Top(p).node].Right)
    /\ UNCHANGED <<Root, nodes, keys, key, val, newNode, cur, op, hist, ref, phase, pre, retries>>

\* delete, line 173: return (*Node)(node.Left)
delRetLeft(p) ==
    /\ pc[p] = "delRetLeft"
    /\ ReturnDelete(p, nodes[Top(p).node].Left)
    /\ UNCHANGED <<Root, nodes, keys, key, val, newNode, cur, op, hist, ref, phase, pre, retries>>

\* delete, line 177, and minValueNode, line 190: current := (*Node)(node.Right)
delMinArg(p) ==
    /\ pc[p] = "delMinArg"
    /\ SetTop(p, [Top(p) EXCEPT !.min = nodes[Top(p).node].Right])
    /\ Goto(p, "minLeftNil")
    /\ UNCHANGED <<Root, nodes, keys, key, val, newNode, cur, rv, op, hist, ref, phase, pre, retries>>

\* minValueNode, lines 193 and 196: for (*Node)(current.Left) != nil; return current.
\* Reading current.Left of a nil current is a nil dereference: the program panics.
minLeftNil(p) ==
    /\ pc[p] = "minLeftNil"
    /\ IF Top(p).min = Nil THEN Goto(p, "panic")
       ELSE IF nodes[Top(p).min].Left # Nil THEN Goto(p, "minLeft")
       ELSE Goto(p, "delKeyLoad")
    /\ UNCHANGED <<Root, nodes, keys, key, val, newNode, cur, stack, rv, op, hist, ref, phase, pre, retries>>

\* A minValueNode that does not follow the left links: it returns the node
\* it was given
minLeftStop(p) ==
    /\ pc[p] = "minLeft"
    /\ Goto(p, "delKeyLoad")
    /\ UNCHANGED <<Root, nodes, keys, key, val, newNode, cur, stack, rv, op, hist, ref, phase, pre, retries>>

\* minValueNode, line 194: current = (*Node)(current.Left)
minLeft(p) ==
    /\ pc[p] = "minLeft"
    /\ SetTop(p, [Top(p) EXCEPT !.min = nodes[Top(p).min].Left])
    /\ Goto(p, "minLeftNil")
    /\ UNCHANGED <<Root, nodes, keys, key, val, newNode, cur, rv, op, hist, ref, phase, pre, retries>>

minValueNode(p) == minLeftNil(p) \/ minLeft(p)

\* delete, line 180: node.Key = minNode.Key, the read of minNode.Key
delKeyLoad(p) ==
    /\ pc[p] = "delKeyLoad"
    /\ SetTop(p, [Top(p) EXCEPT !.tmp = nodes[Top(p).min].Key])
    /\ Goto(p, "delKeyStore")
    /\ UNCHANGED <<Root, nodes, keys, key, val, newNode, cur, rv, op, hist, ref, phase, pre, retries>>

\* delete, line 180: node.Key = minNode.Key, the write of node.Key
delKeyStore(p) ==
    /\ pc[p] = "delKeyStore"
    /\ nodes' = [nodes EXCEPT ![Top(p).node].Key = Top(p).tmp]
    /\ Goto(p, "delSuccNode")
    /\ UNCHANGED <<Root, keys, key, val, newNode, cur, stack, rv, op, hist, ref, phase, pre, retries>>

\* delete, line 183: the first argument, node.Right, is read
delSuccNode(p) ==
    /\ pc[p] = "delSuccNode"
    /\ SetTop(p, [Top(p) EXCEPT !.tmp = nodes[Top(p).node].Right])
    /\ Goto(p, "delSuccKey")
    /\ UNCHANGED <<Root, nodes, keys, key, val, newNode, cur, rv, op, hist, ref, phase, pre, retries>>

\* delete, line 183: the second argument, minNode.Key.K, is read and delete is called
delSuccKey(p) ==
    /\ pc[p] = "delSuccKey"
    /\ CallDelete(p, Top(p).tmp, KeyK(Top(p).min), "delSuccStore", Nil)
    /\ UNCHANGED <<Root, nodes, keys, key, val, newNode, cur, op, hist, ref, phase, pre, retries>>

\* A delete that leaves the successor's node in the right subtree
delSuccKept(p) ==
    /\ pc[p] = "delSuccStore"
    /\ ReturnDelete(p, Top(p).node)
    /\ UNCHANGED <<Root, nodes, keys, key, val, newNode, cur, op, hist, ref, phase, pre, retries>>

\* delete, lines 183 and 185: node.Right = <the result>; return node
delSuccStore(p) ==
    /\ pc[p] = "delSuccStore"
    /\ nodes' = [nodes EXCEPT ![Top(p).node].Right = rv[p]]
    /\ ReturnDelete(p, Top(p).node)
    /\ UNCHANGED <<Root, keys, key, val, newNode, cur, op, hist, ref, phase, pre, retries>>

delete(p) ==
    \/ delCmpLess(p) \/ delLeftLoad(p) \/ delLeftStore(p)
    \/ delCmpGreater(p) \/ delRightLoad(p) \/ delRightStore(p)
    \/ delLeftNil(p) \/ delRetRight(p)
    \/ delRightNil(p) \/ delRetLeft(p)
    \/ delMinArg(p) \/ minValueNode(p)
    \/ delKeyLoad(p) \/ delKeyStore(p)
    \/ delSuccNode(p) \/ delSuccKey(p) \/ delSuccStore(p)

Delete(p) == DeleteLoadRoot(p) \/ DeleteStoreRoot(p) \/ delete(p)

\* ------------------------------------------------------ one caller at a time
\* The reference map: what a map from keys to value lists does on each call.
RefPut(k, v) ==
    [ref EXCEPT ![k] = [present |-> TRUE, values |-> Append(@.values, v)]]

RefDelete(k) == [ref EXCEPT ![k] = [present |-> FALSE, values |-> <<>>]]

RECURSIVE WithoutFirst(_, _)
WithoutFirst(vs, v) ==
    IF vs = <<>> THEN <<>>
    ELSE IF Head(vs) = v THEN Tail(vs)
    ELSE <<Head(vs)>> \o WithoutFirst(Tail(vs), v)

RefRemove(k, v) == [ref EXCEPT ![k].values = WithoutFirst(@, v)]

Caller == 1

\* The value of the next Put of a sequential run: the values take turns, so
\* that a key put to several times gets equal and different values.
NextVal == KeyOf(1 + (Len(nodes) % NumVals))

SeqCall ==
    \/ \E k \in Keys :
          /\ Len(nodes) < MaxPuts
          /\ PutCall(Caller, k, NextVal)
          /\ ref' = RefPut(k, NextVal)
          /\ pre' = Tree
          /\ UNCHANGED phase
    \/ \E k \in Keys : GetCall(Caller, k) /\ pre' = Tree /\ UNCHANGED <<ref, phase>>
    \/ \E k \in Keys, v \in Vals :
          /\ RemoveCall(Caller, k, v)
          /\ ref' = RefRemove(k, v)
          /\ pre' = Tree
          /\ UNCHANGED phase
    \/ \E k \in Keys :
          /\ DeleteCall(Caller, k)
          /\ ref' = RefDelete(k)
          /\ pre' = Tree
          /\ UNCHANGED phase

Next ==
    \/ SeqCall
    \/ Put(Caller) \/ GetSteps(Caller) \/ Remove(Caller) \/ Delete(Caller)
    \/ Returned(Caller)

Init == InitIn("seq")

Spec == Init /\ [][Next]_vars

\* -------------------------------------------------- concurrent Puts only
PutsNext ==
    \E p \in Procs :
        \/ \E k \in Keys :
              /\ Len(nodes) < MaxConcPuts
              /\ PutCall(p, k, ValOf(p))
              /\ UNCHANGED <<ref, phase, pre, retries>>
        \/ Put(p)
        \/ Returned(p)

PutsSpec == InitIn("run") /\ [][PutsNext]_vars

\* ------------------------------------- a pre-filled tree, then goroutines
\* The tests pre-fill the tree from one goroutine and then start the others.
FillCall ==
    /\ phase = "fill"
    /\ Len(nodes) < MaxFill
    /\ \E k \in Keys :
          PutCall(Caller, k, NextVal) /\ ref' = RefPut(k, NextVal) /\ UNCHANGED <<phase, pre, retries>>

FillReturned == phase = "fill" /\ Returned(Caller)

StartRun ==
    /\ phase = "fill"
    /\ \A p \in Procs : pc[p] = "idle"
    /\ phase' = "run"
    /\ UNCHANGED <<Root, nodes, keys, pc, key, val, newNode, cur, stack, rv, op, hist, ref, pre, retries>>

Fill == FillCall \/ Put(Caller) \/ FillReturned \/ StartRun

\* Pre-filling with pairwise distinct keys, as TestBST_ConcurrentDelete does
\* (lines 330-336): the Puts never take the equal-key branch.
FillFreshCall ==
    /\ phase = "fill"
    /\ Len(nodes) < MaxFill
    /\ \E k \in Keys :
          /\ Get(k) = Nil
          /\ PutCall(Caller, k, NextVal)
          /\ ref' = RefPut(k, NextVal)
          /\ UNCHANGED <<phase, pre, retries>>

FillFresh ==
    \/ FillFreshCall
    \/ PutLoadRoot(Caller) \/ PutCasRoot(Caller)
    \/ putCmpLess(Caller) \/ putCmpGreater(Caller)
    \/ putLoadLeft(Caller) \/ putCasLeft(Caller)
    \/ putLoadRight(Caller) \/ putCasRight(Caller)
    \/ FillReturned
    \/ StartRun

\* A goroutine calls Get with the key of the Delete it has just returned from
\* (TestBST_ConcurrentDelete, lines 345-349).
VerifyCall(p) ==
    /\ pc[p] = "done"
    /\ op[p] = "Delete"
    /\ op' = [op EXCEPT ![p] = "Get"]
    /\ Goto(p, "GetLoadRoot")
    /\ UNCHANGED <<Root, nodes, keys, key, val, newNode, cur, stack, rv, hist, ref, phase, pre, retries>>

\* Concurrent Deletes: every goroutine deletes one key and then looks it up.
DeletesNext ==
    \/ FillFresh
    \/ \E p \in Procs :
          \/ \E k \in Keys :
                /\ phase = "run"
                /\ DeleteCall(p, k)
                /\ UNCHANGED <<ref, phase, pre, retries>>
          \/ Delete(p)
          \/ VerifyCall(p)
          \/ GetSteps(p)

DeletesSpec == InitIn("fill") /\ [][DeletesNext]_vars

\* Concurrent Puts into a pre-filled tree: every goroutine puts one key, with
\* its own value.
RaceNext ==
    \/ FillFresh
    \/ \E p \in Procs :
          \/ \E k \in Keys :
                /\ phase = "run"
                /\ PutCall(p, k, ValOf(p))
                /\ UNCHANGED <<ref, phase, pre>>
          \/ Put(p)

RaceSpec == InitIn("fill") /\ [][RaceNext]_vars

\* The scheduler of the Go runtime is fair: a goroutine that can take a step
\* of its Put takes it.
FairRaceSpec == RaceSpec /\ \A p \in Procs : WF_vars(Put(p))

\* Concurrent Puts and Removes on a pre-filled tree: every goroutine makes one
\* call, a Put with its own value or a Remove of any value.
LatchNext ==
    \/ FillFresh
    \/ \E p \in Procs :
          \/ \E k \in Keys :
                /\ phase = "run"
                /\ PutCall(p, k, ValOf(p))
                /\ UNCHANGED <<ref, phase, pre>>
          \/ \E k \in Keys, v \in Vals :
                /\ phase = "run"
                /\ RemoveCall(p, k, v)
                /\ UNCHANGED <<ref, phase, pre>>
          \/ Put(p)
          \/ Remove(p)

LatchSpec == InitIn("fill") /\ [][LatchNext]_vars

\* Concurrent Puts and Gets: a goroutine calls Get with a key whose Put has
\* returned, while other Puts may be running.
PutGetNext ==
    \E p \in Procs :
        \/ \E k \in Keys :
              /\ Len(nodes) < MaxConcPuts
              /\ PutCall(p, k, ValOf(p))
              /\ UNCHANGED <<ref, phase, pre>>
        \/ \E k \in {h.key : h \in hist} :
              /\ GetCall(p, k)
              /\ UNCHANGED <<ref, phase, pre>>
        \/ Put(p)
        \/ GetSteps(p)
        \/ Returned(p)

PutGetSpec == InitIn("run") /\ [][PutGetNext]_vars

\* Concurrent Puts and Deletes on a pre-filled tree: every goroutine makes
\* one call, a Put with its own value or a Delete.
MixNext ==
    \/ FillFresh
    \/ \E p \in Procs :
          \/ \E k \in Keys :
                /\ phase = "run"
                /\ PutCall(p, k, ValOf(p))
                /\ UNCHANGED <<ref, phase, pre>>
          \/ \E k \in Keys :
                /\ phase = "run"
                /\ DeleteCall(p, k)
                /\ UNCHANGED <<ref, phase, pre>>
          \/ Put(p)
          \/ Delete(p)

MixSpec == InitIn("fill") /\ [][MixNext]_vars

\* One goroutine Puts while the others Delete.
Putter == 1

PutDeleteNext ==
    \/ Fill
    \/ \E k \in Keys :
          /\ phase = "run"
          /\ PutCall(Putter, k, ValOf(Putter))
          /\ UNCHANGED <<ref, phase, pre, retries>>
    \/ \E p \in Procs \ {Putter} :
          \/ \E k \in Keys :
                /\ phase = "run"
                /\ DeleteCall(p, k)
                /\ UNCHANGED <<ref, phase, pre, retries>>
          \/ Delete(p)

PutDeleteSpec == InitIn("fill") /\ [][PutDeleteNext]_vars

\* ------------------------------------------------------------------- scans
\* The scans append node.Key to one slice while they walk the tree; on a tree
\* no writer is touching the slice they return is the concatenation, in call
\* order, of what each call of the helper appends.  d bounds the depth.

\* rangeKeys, lines 209-227
RECURSIVE rangeKeys(_, _, _, _)
rangeKeys(node, start, end, d) ==
    IF node = Nil \/ d = 0 THEN <<>>
    ELSE (IF Compare(KeyK(node), start) > 0
          THEN rangeKeys(nodes[node].Left, start, end, d - 1) ELSE <<>>)
         \o (IF Compare(KeyK(node), start) >= 0 /\ Compare(KeyK(node), end) <= 0
             THEN <<nodes[node].Key>> ELSE <<>>)
         \o (IF Compare(KeyK(node), end) < 0
             THEN rangeKeys(nodes[node].Right, start, end, d - 1) ELSE <<>>)

\* greaterThan, lines 239-257
RECURSIVE greaterThan(_, _, _)
greaterThan(node, k, d) ==
    IF node = Nil \/ d = 0 THEN <<>>
    ELSE IF Compare(KeyK(node), k) > 0
         THEN greaterThan(nodes[node].Left, k, d - 1)
              \o <<nodes[node].Key>>
              \o greaterThan(nodes[node].Right, k, d - 1)
         ELSE greaterThan(nodes[node].Right, k, d - 1)

\* greaterThanEq, lines 269-288: the node's Key is appended before the left
\* subtree is searched
RECURSIVE greaterThanEq(_, _, _)
greaterThanEq(node, k, d) ==
    IF node = Nil \/ d = 0 THEN <<>>
    ELSE IF Compare(KeyK(node), k) >= 0
         THEN <<nodes[node].Key>>
              \o greaterThanEq(nodes[node].Left, k, d - 1)
              \o greaterThanEq(nodes[node].Right, k, d - 1)
         ELSE greaterThanEq(nodes[node].Right, k, d - 1)

\* lessThan, lines 300-318: the node's Key is appended before the left
\* subtree is searched
RECURSIVE lessThan(_, _, _)
lessThan(node, k, d) ==
    IF node = Nil \/ d = 0 THEN <<>>
    ELSE IF Compare(KeyK(node), k) < 0
         THEN <<nodes[node].Key>>
              \o lessThan(nodes[node].Left, k, d - 1)
              \o lessThan(nodes[node].Right, k, d - 1)
         ELSE lessThan(nodes[node].Left, k, d - 1)

\* lessThanEq, lines 330-348: the node's Key is appended before the left
\* subtree is searched
RECURSIVE lessThanEq(_, _, _)
lessThanEq(node, k, d) ==
    IF node = Nil \/ d = 0 THEN <<>>
    ELSE IF Compare(KeyK(node), k) <= 0
         THEN <<nodes[node].Key>>
              \o lessThanEq(nodes[node].Left, k, d - 1)
              \o lessThanEq(nodes[node].Right, k, d - 1)
         ELSE lessThanEq(nodes[node].Left, k, d - 1)

\* nGet, lines 360-374
RECURSIVE nGet(_, _, _)
nGet(node, k, d) ==
    IF node = Nil \/ d = 0 THEN <<>>
    ELSE nGet(nodes[node].Left, k, d - 1)
         \o (IF Compare(KeyK(node), k) # 0 THEN <<nodes[node].Key>> ELSE <<>>)
         \o nGet(nodes[node].Right, k, d - 1)

\* A scan is called: o is its name, k its key (Range's start), e Range's end
ScanCall(p, o, k, e) ==
    /\ Call(p, o, k, e, o)
    /\ UNCHANGED <<Root, nodes, keys, newNode, cur, stack, rv, hist>>

\* The scan returns its slice
ScanReturn(p, o, out) ==
    /\ pc[p] = o
    /\ rv' = [rv EXCEPT ![p] = out]
    /\ Return(p, o)
    /\ UNCHANGED <<Root, nodes, keys, key, val, stack, ref, phase, pre, retries>>

\* A Range that leaves out its start key
RangeExclusive(p) ==
    ScanReturn(p, "Range",
               SelectSeq(rangeKeys(Root, key[p], val[p], Len(nodes)), LAMBDA i : keys[i].K # key[p]))

\* A Range that takes its bounds in the other order
RangeSwapped(p) == ScanReturn(p, "Range", rangeKeys(Root, val[p], key[p], Len(nodes)))

\* Range, lines 200-206
Range(p) == ScanReturn(p, "Range", rangeKeys(Root, key[p], val[p], Len(nodes)))

\* A GreaterThan that takes the key itself as well
GreaterThanInclusive(p) ==
    ScanReturn(p, "GreaterThan", rangeKeys(Root, key[p], <<2, 2, 2, 2>>, Len(nodes)))

\* GreaterThan, lines 230-236
GreaterThan(p) == ScanReturn(p, "GreaterThan", greaterThan(Root, key[p], Len(nodes)))

\* GreaterThanEq, lines 260-266
GreaterThanEq(p) == ScanReturn(p, "GreaterThanEq", greaterThanEq(Root, key[p], Len(nodes)))

\* LessThan, lines 291-297
LessThan(p) == ScanReturn(p, "LessThan", lessThan(Root, key[p], Len(nodes)))

\* A LessThanEq that leaves out the key itself
LessThanEqExclusive(p) == ScanReturn(p, "LessThanEq", lessThan(Root, key[p], Len(nodes)))

\* LessThanEq, lines 321-327
LessThanEq(p) == ScanReturn(p, "LessThanEq", lessThanEq(Root, key[p], Len(nodes)))

\* An NGet that leaves out nothing
NGetAll(p) == ScanReturn(p, "NGet", nGet(Root, <<0>>, Len(nodes)))

\* NGet, lines 351-357
NGet(p) == ScanReturn(p, "NGet", nGet(Root, key[p], Len(nodes)))

\* ------------------------------------------ a tree is built, then scanned
\* The tree is built by Puts of distinct keys in any order; then one caller
\* scans it, with no writer running.
ScanCalls ==
    /\ phase = "run"
    /\ UNCHANGED <<ref, phase, pre, retries>>
    /\ \/ \E k \in Keys, e \in Keys : ScanCall(Caller, "Range", k, e)
       \/ \E k \in Keys :
             \E o \in {"GreaterThan", "GreaterThanEq", "LessThan", "LessThanEq", "NGet"} :
                 ScanCall(Caller, o, k, <<>>)

ScanReturned == phase = "run" /\ Returned(Caller)

ScanNext ==
    \/ FillFresh
    \/ ScanCalls
    \/ Range(Caller)
    \/ GreaterThan(Caller) \/ GreaterThanEq(Caller)
    \/ LessThan(Caller) \/ LessThanEq(Caller)
    \/ NGet(Caller)
    \/ ScanReturned

ScanSpec == InitIn("fill") /\ [][ScanNext]_vars

\* ================================================================== claims
\* The keys of the subtree of n, in the order of an in-order walk (left, self, right)
RECURSIVE InOrder(_, _)
InOrder(n, d) ==
    IF n = Nil \/ d = 0 THEN <<>>
    ELSE InOrder(nodes[n].Left, d - 1) \o <<KeyK(n)>> \o InOrder(nodes[n].Right, d - 1)

Ascending(ks) == \A i \in 1..(Len(ks) - 1) : Compare(ks[i], ks[i + 1]) < 0

Subtree(n) == Reach(n, Len(nodes))

BSTProperty ==
    \A n \in Live :
        /\ \A m \in Subtree(nodes[n].Left) : Compare(KeyK(m), KeyK(n)) < 0
        /\ \A m \in Subtree(nodes[n].Right) : Compare(KeyK(m), KeyK(n)) > 0

NoKeyTwice == \A m, n \in Live : m # n => KeyK(m) # KeyK(n)

Ordered == BSTProperty /\ NoKeyTwice /\ Ascending(InOrder(Root, Len(nodes)))

Running(p) == pc[p] \notin {"idle", "done"}

\* No call is in progress
AllReturned == \A p \in Procs : ~Running(p)

Elems(vs) == {vs[i] : i \in 1..Len(vs)}

\* C1: under any interleaving of concurrent Puts, in every reachable state the
\* tree satisfies the BST property, holds no key in two nodes, and its in-order
\* walk is strictly ascending.
C1_PutsKeepOrder == Ordered

\* C1 witness: a Put is about to lose the race for an empty slot, which
\* another Put has filled since it was loaded
C1_Witness ==
    \E p \in Procs :
        \/ pc[p] = "putCasLeft" /\ nodes[cur[p]].Left # Nil
        \/ pc[p] = "putCasRight" /\ nodes[cur[p]].Right # Nil

\* C2: in a sequential run a Get that has returned found a Key record exactly
\* when its key has been Put and not Deleted since, and the record's K is the key.
C2_GetMatchesReference ==
    (pc[Caller] = "done" /\ op[Caller] = "Get") =>
        /\ (rv[Caller] # Nil) <=> ref[key[Caller]].present
        /\ rv[Caller] # Nil => keys[rv[Caller]].K = key[Caller]

\* C2 witness: a Get finds a key below the root, in a tree whose root was
\* given its successor's Key record by a Delete
C2_Witness ==
    /\ pc[Caller] = "done"
    /\ op[Caller] = "Get"
    /\ rv[Caller] # Nil
    /\ rv[Caller] # nodes[Root].Key
    /\ nodes[Root].Key # Root

\* C3: in a sequential run the Values of the Key a Get returns are the values
\* put to that key, in call order, duplicates included.
C3_ValuesInPutOrder ==
    (pc[Caller] = "done" /\ op[Caller] = "Get" /\ rv[Caller] # Nil) =>
        keys[rv[Caller]].Values = ref[key[Caller]].values

\* C3 witness: Put(k, v1), Put(k, v2) with different values, then Get(k)
C3_Witness ==
    /\ pc[Caller] = "done"
    /\ op[Caller] = "Get"
    /\ rv[Caller] # Nil
    /\ keys[rv[Caller]].Values = <<KeyOf(1), KeyOf(2)>>

\* C4: once all concurrent Puts have returned, every key that was put is found
\* by Get and its Values contain the value put.
C4_AllPutsFound ==
    AllReturned =>
        \A h \in hist :
            /\ Get(h.key) # Nil
            /\ h.val \in Elems(keys[Get(h.key)].Values)

\* C4 witness: three Puts of pairwise distinct keys, by two goroutines, have returned
C4_Witness ==
    /\ AllReturned
    /\ Cardinality({h.key : h \in hist}) = 3
    /\ Cardinality({h.val : h \in hist}) = 2
    /\ Cardinality(Live) = 3

\* What the reference map says of every key but k: present with its values, or absent
OthersAsReference(k) ==
    \A j \in Keys \ {k} :
        IF ref[j].present
        THEN Get(j) # Nil /\ keys[Get(j)].K = j /\ keys[Get(j)].Values = ref[j].values
        ELSE Get(j) = Nil

\* C5: in a sequential run, when Delete(k) returns Get(k) finds nothing and
\* every other key is present as before, with its Values unchanged.
C5_DeleteRemovesOneKey ==
    (pc[Caller] = "done" /\ op[Caller] = "Delete") =>
        /\ Get(key[Caller]) = Nil
        /\ OthersAsReference(key[Caller])

\* C5 witness: the Delete of a root with two children has returned (the root
\* node now holds its successor's Key record)
C5_Witness ==
    /\ pc[Caller] = "done"
    /\ op[Caller] = "Delete"
    /\ Root # Nil
    /\ nodes[Root].Key # Root
    /\ keys[Root].K = key[Caller]
    /\ nodes[Root].Left # Nil

\* C6: in a sequential run of Puts and Deletes, when a Delete returns the tree
\* is ordered again: BST property at every node and no key in two nodes.
C6_DeleteKeepsOrder ==
    (pc[Caller] = "done" /\ op[Caller] = "Delete") => Ordered

\* C6 witness: the Delete of an inner node with two children has returned
C6_Witness ==
    /\ pc[Caller] = "done"
    /\ op[Caller] = "Delete"
    /\ \E n \in Live :
          /\ n # Root
          /\ nodes[n].Key # n
          /\ keys[n].K = key[Caller]

\* The keys of the Deletes that were called
DeleteKeys == {key[p] : p \in {q \in Procs : op[q] # "" /\ q # Putter}}

\* C7: a Put(k, v) running concurrently with Deletes of other keys is not lost:
\* once all have returned, Get(k) finds a Key whose Values contain v.
C7_PutSurvivesDelete ==
    (/\ phase = "run"
     /\ AllReturned
     /\ pc[Putter] = "done"
     /\ op[Putter] = "Put"
     /\ key[Putter] \notin DeleteKeys) =>
        /\ Get(key[Putter]) # Nil
        /\ val[Putter] \in Elems(keys[Get(key[Putter])].Values)

\* The goroutines that have called
Started == {p \in Procs : op[p] # ""}

\* C8: with concurrent Deletes of pairwise distinct keys, the Get(k) a
\* goroutine issues after its own Delete(k) has returned finds nothing.
C8_OwnDeleteIsSeen ==
    \A p \in Procs :
        (/\ pc[p] = "done"
         /\ op[p] = "Get"
         /\ \A q \in Started : ref[key[q]].present
         /\ \A q \in Started \ {p} : key[q] # key[p]) =>
            rv[p] = Nil

\* C9: once concurrent Deletes have all returned, every key that none of them
\* targeted is still found, with its Values unchanged.
C9_OnlyTargetsRemoved ==
    (phase = "run" /\ AllReturned) =>
        \A k \in Keys \ {key[p] : p \in Started} :
            ref[k].present =>
                /\ Get(k) # Nil
                /\ keys[Get(k)].K = k
                /\ keys[Get(k)].Values = ref[k].values

RECURSIVE getBefore(_, _, _)
getBefore(node, k, d) ==
    IF node = Nil \/ d = 0 THEN Nil
    ELSE LET nk == pre.keys[pre.nodes[node].Key].K IN
         IF Compare(k, nk) < 0 THEN getBefore(pre.nodes[node].Left, k, d - 1)
         ELSE IF Compare(k, nk) > 0 THEN getBefore(pre.nodes[node].Right, k, d - 1)
         ELSE pre.nodes[node].Key

GetBefore(k) == getBefore(pre.Root, k, Len(pre.nodes))

\* vs with its i-th element left out
Without(vs, i) == SubSeq(vs, 1, i - 1) \o SubSeq(vs, i + 1, Len(vs))

\* The index of the first element of vs equal to v
FirstAt(vs, v) == CHOOSE i \in 1..Len(vs) : vs[i] = v /\ \A j \in 1..(i - 1) : vs[j] # v

\* C11: in a sequential run, when Remove(k, v) returns for a key k that was
\* present with v among its Values, the Values of k are the old list without
\* its first element equal to v, the other elements in their old order, and
\* nothing else of the tree has changed.
C11_RemoveCutsFirst ==
    LET i == GetBefore(key[Caller]) IN
    (/\ pc[Caller] = "done"
     /\ op[Caller] = "Remove"
     /\ i # Nil
     /\ val[Caller] \in Elems(pre.keys[i].Values)) =>
        /\ keys[i].Values = Without(pre.keys[i].Values, FirstAt(pre.keys[i].Values, val[Caller]))
        /\ keys[i].K = pre.keys[i].K
        /\ \A j \in DOMAIN keys \ {i} : keys[j] = pre.keys[j]
        /\ Root = pre.Root
        /\ nodes = pre.nodes

\* C11 witness: Remove(k, v) has returned for a key whose Values were v, w, v:
\* the later duplicate of v is still there, after w
C11_Witness ==
    /\ pc[Caller] = "done"
    /\ op[Caller] = "Remove"
    /\ GetBefore(key[Caller]) # Nil
    /\ val[Caller] = KeyOf(1)
    /\ pre.keys[GetBefore(key[Caller])].Values = <<KeyOf(1), KeyOf(2), KeyOf(1)>>
    /\ keys[GetBefore(key[Caller])].Values = <<KeyOf(2), KeyOf(1)>>

\* The running call is a Delete of an absent key, a Remove of an absent key,
\* or a Remove of a value that the key does not have
NoOpCall ==
    \/ op[Caller] = "Delete" /\ GetBefore(key[Caller]) = Nil
    \/ op[Caller] = "Remove" /\ GetBefore(key[Caller]) = Nil
    \/ /\ op[Caller] = "Remove"
       /\ GetBefore(key[Caller]) # Nil
       /\ val[Caller] \notin Elems(pre.keys[GetBefore(key[Caller])].Values)

\* C12: in a sequential run, when a Delete of an absent key, a Remove of an
\* absent key or a Remove of a value the key does not have returns, the whole
\* tree is as it was: the same root, the same links, the same keys and Values.
C12_AbsentIsNoOp ==
    (pc[Caller] = "done" /\ NoOpCall) => Tree = pre

\* C12 witness: the Delete of an absent key has returned, after it went down
\* to an empty slot below the root of a tree of three nodes or more
C12_Witness ==
    /\ pc[Caller] = "done"
    /\ op[Caller] = "Delete"
    /\ GetBefore(key[Caller]) = Nil
    /\ Cardinality(Live) >= 3
    /\ Compare(key[Caller], KeyK(Root)) < 0
    /\ nodes[Root].Left # Nil

\* The keys that were put into the tree
Stored == {k \in Keys : ref[k].present}

\* The K of every Key record of a slice, in the order of the slice
Ks(out) == [i \in 1..Len(out) |-> keys[out[i]].K]

\* The scan o has returned to the caller
ScanDone(o) == pc[Caller] = "done" /\ op[Caller] = o

\* The slice the scan returned
Out == rv[Caller]

\* C13: on a tree built by Puts in any order, Range(lo, hi) returns the Key
\* records of exactly the stored keys k with lo <= k <= hi, each once, in
\* ascending key order (nothing when no stored key is in the range).
C13_RangeInclusiveAscending ==
    ScanDone("Range") =>
        /\ Ascending(Ks(Out))
        /\ Elems(Ks(Out)) = {k \in Stored : Compare(k, key[Caller]) >= 0 /\ Compare(k, val[Caller]) <= 0}
        /\ \A i \in 1..Len(Out) : Out[i] = Get(keys[Out[i]].K)

\* C13 witness: Range(lo, hi) with lo and hi stored has returned the two keys
\* lo and hi, from a tree of four keys whose root has two children
C13_Witness ==
    /\ ScanDone("Range")
    /\ Cardinality(Live) = 4
    /\ nodes[Root].Left # Nil
    /\ nodes[Root].Right # Nil
    /\ Len(Out) = 2
    /\ keys[Out[1]].K = key[Caller]
    /\ keys[Out[2]].K = val[Caller]

\* C14: on a tree built by Puts in any order, GreaterThan(x) returns the stored
\* keys strictly greater than x, in ascending key order.
C14_GreaterThanAscending ==
    ScanDone("GreaterThan") =>
        /\ Ascending(Ks(Out))
        /\ Elems(Ks(Out)) = {k \in Stored : Compare(k, key[Caller]) > 0}

\* C14 witness: GreaterThan(x) for a stored x has returned a key of the
\* root's left subtree and then the root's key
C14_Witness ==
    /\ ScanDone("GreaterThan")
    /\ ref[key[Caller]].present
    /\ Len(Out) >= 2
    /\ Out[2] = nodes[Root].Key

\* C15: on a tree built by Puts in any order, the slice GreaterThanEq(x)
\* returns is in ascending key order.
C15_GreaterThanEqAscending == ScanDone("GreaterThanEq") => Ascending(Ks(Out))

\* C16: on a tree built by Puts in any order, the slice LessThan(x) returns
\* is in ascending key order.
C16_LessThanAscending == ScanDone("LessThan") => Ascending(Ks(Out))

\* C17: on a tree built by Puts in any order, the slice LessThanEq(x) returns
\* is in ascending key order.
C17_LessThanEqAscending == ScanDone("LessThanEq") => Ascending(Ks(Out))

\* The slice holds exactly the keys of S, each once
HoldsOnce(out, S) == Elems(Ks(out)) = S /\ Len(out) = Cardinality(S)

\* C18: on a tree built by Puts in any order and for x stored or not, the
\* slices of GreaterThan(x), GreaterThanEq(x), LessThan(x) and LessThanEq(x)
\* hold exactly the stored keys k > x, k >= x, k < x and k <= x, each once.
C18_ScansAsSets ==
    /\ ScanDone("GreaterThan") => HoldsOnce(Out, {k \in Stored : Compare(k, key[Caller]) > 0})
    /\ ScanDone("GreaterThanEq") => HoldsOnce(Out, {k \in Stored : Compare(k, key[Caller]) >= 0})
    /\ ScanDone("LessThan") => HoldsOnce(Out, {k \in Stored : Compare(k, key[Caller]) < 0})
    /\ ScanDone("LessThanEq") => HoldsOnce(Out, {k \in Stored : Compare(k, key[Caller]) <= 0})

\* C18 witness: LessThanEq(x) for a stored x has returned x and a smaller key,
\* in a tree that also holds a greater key
C18_Witness ==
    /\ ScanDone("LessThanEq")
    /\ ref[key[Caller]].present
    /\ Len(Out) >= 2
    /\ key[Caller] \in Elems(Ks(Out))
    /\ \E k \in Stored : Compare(k, key[Caller]) > 0

\* C19: on a tree built by Puts in any order, NGet(x) returns every stored
\* key but x, each once, in ascending key order (all of them when x is not
\* stored).
C19_NGetAllButOne ==
    ScanDone("NGet") =>
        /\ Ascending(Ks(Out))
        /\ Elems(Ks(Out)) = Stored \ {key[Caller]}

\* C19 witness: NGet(x) for the key x of a root with two children has
\* returned the three other keys of the tree
C19_Witness ==
    /\ ScanDone("NGet")
    /\ Root # Nil
    /\ KeyK(Root) = key[Caller]
    /\ nodes[Root].Left # Nil
    /\ nodes[Root].Right # Nil
    /\ Len(Out) = 3

\* C20: in a sequential run, once every key that was put has been deleted, in
\* whatever order, the tree is empty: the root slot is nil and Get finds no key.
C20_AllDeletedIsEmpty ==
    (~Running(Caller) /\ Stored = {}) =>
        /\ Root = Nil
        /\ \A k \in Keys : Get(k) = Nil

\* C20 witness: the Delete of the last key has returned; the node it removed
\* held the Key record of another node, its successor in a tree of three keys
\* or more whose other keys were deleted before
C20_Witness ==
    /\ pc[Caller] = "done"
    /\ op[Caller] = "Delete"
    /\ Stored = {}
    /\ Root = Nil
    /\ pre.Root # Nil
    /\ pre.nodes[pre.Root].Key # pre.Root

\* a is a proper prefix of b
IsProperPrefix(a, b) == Len(a) < Len(b) /\ SubSeq(b, 1, Len(a)) = a

\* C21: a key that is a proper prefix of another key (the empty key included)
\* sorts before it, and in a sequential run the two are stored as two keys:
\* Get finds each in its own Key record, whose Values are the values put to
\* that key and to no other.
C21_PrefixKeysAreSeparate ==
    \A a, b \in Keys :
        IsProperPrefix(a, b) =>
            /\ Compare(a, b) < 0
            /\ Compare(b, a) > 0
            /\ (~Running(Caller) /\ ref[a].present /\ ref[b].present) =>
                  /\ Get(a) # Nil
                  /\ Get(b) # Nil
                  /\ Get(a) # Get(b)
                  /\ keys[Get(a)].K = a
                  /\ keys[Get(b)].K = b
                  /\ keys[Get(a)].Values = ref[a].values
                  /\ keys[Get(b)].Values = ref[b].values
                  /\ Ascending(InOrder(Root, Len(nodes)))

\* C21 witness: the empty key, the key <<1>> and the key <<1, 1>> are stored,
\* and <<1>> was put to twice while <<1, 1>> was put to once
C21_Witness ==
    /\ ~Running(Caller)
    /\ ref[<<>>].present
    /\ ref[<<1>>].present
    /\ ref[<<1, 1>>].present
    /\ Len(ref[<<1>>].values) = 2
    /\ Len(ref[<<1, 1>>].values) = 1

\* The goroutines that put key k in the concurrent run
PuttersOf(k) == {p \in Procs : op[p] = "Put" /\ key[p] = k}

\* The nodes of the tree that hold key k
NodesOf(k) == {n \in Live : KeyK(n) = k}

\* C22: when goroutines concurrently Put the same key k, absent or present
\* before, then after all have returned exactly one node of the tree holds k,
\* and its Values are the values k had before followed by the values that
\* were put, each once, in some order.
C22_SameKeyPutsFold ==
    (phase = "run" /\ AllReturned) =>
        \A k \in Keys :
            PuttersOf(k) # {} =>
                /\ Cardinality(NodesOf(k)) = 1
                /\ LET vs == keys[Get(k)].Values
                       old == ref[k].values
                   IN /\ Len(vs) = Len(old) + Cardinality(PuttersOf(k))
                      /\ SubSeq(vs, 1, Len(old)) = old
                      /\ {vs[i] : i \in (Len(old) + 1)..Len(vs)} = {ValOf(p) : p \in PuttersOf(k)}

\* C22 witness: two goroutines have put the same absent key; one of them lost
\* the race for the empty slot, went around its loop and appended its value
C22_Witness ==
    /\ phase = "run"
    /\ AllReturned
    /\ \E k \in Keys :
          /\ PuttersOf(k) = Procs
          /\ ~ref[k].present
          /\ Cardinality(Live) >= 2
          /\ Len(keys[Get(k)].Values) = 2
    /\ \E p \in Procs : retries[p] >= 1

\* The slot that the CAS of p's Put is about to be tried on holds a node
\* that was created in the concurrent run, by another Put
SlotTakenByOther(p) ==
    LET n == IF pc[p] = "PutCasRoot" THEN Root
             ELSE IF pc[p] = "putCasLeft" THEN nodes[cur[p]].Left
             ELSE IF pc[p] = "putCasRight" THEN nodes[cur[p]].Right
             ELSE Nil
    IN n # Nil /\ n # newNode[p] /\ n > Cardinality(Stored)

\* C23: with finitely many concurrent Puts and no Delete, under fair
\* scheduling every Put returns; a Put goes around its loop again only when
\* its CAS failed on a slot that another Put has filled; and a Put does so at
\* most as often as there are other goroutines putting.
C23_PutLockFree ==
    /\ \A p \in Procs : (phase = "run" /\ op[p] = "Put") ~> (pc[p] = "done")
    /\ [][\A p \in Procs : retries'[p] > retries[p] => SlotTakenByOther(p)]_vars
    /\ [](\A p \in Procs :
             retries[p] <= Cardinality({q \in Procs \ {p} : op[q] = "Put"}))

\* C23 witness: a Put that went around its loop once has returned
C23_Witness ==
    \E p \in Procs :
        /\ phase = "run"
        /\ pc[p] = "done"
        /\ retries[p] = 1

\* The child slot that p's put is about to try its CAS on
CasSlot(p) ==
    IF pc[p] = "putCasLeft" THEN nodes[cur[p]].Left
    ELSE IF pc[p] = "putCasRight" THEN nodes[cur[p]].Right
    ELSE Nil

\* p's put takes its CAS step on a child slot that another writer has filled
CasFailed(p) == CasSlot(p) # Nil /\ pc'[p] # pc[p]

\* C24: when the CAS of a Put on an empty child slot fails because another
\* writer has filled the slot, the Put goes on with the node that now fills
\* the slot, at the comparison with that node's key.
C24_RetraceFromChild ==
    [][\A p \in Procs :
          CasFailed(p) => (cur'[p] = CasSlot(p) /\ pc'[p] = "putCmpLess")]_vars

\* C24 as the code has it: when the CAS of a Put on an empty child slot
\* fails, put returns false and Put goes around its loop: it holds no node
\* any more and loads the root slot next, from where it descends again.
C24_RestartFromRoot ==
    [][\A p \in Procs :
          CasFailed(p) => (cur'[p] = Nil /\ pc'[p] = "PutLoadRoot" /\ Root' # Nil)]_vars

\* C24 witness: a Put whose CAS on a child slot failed is back at the load of
\* the root slot
C24_Witness ==
    \E p \in Procs :
        /\ pc[p] = "PutLoadRoot"
        /\ retries[p] >= 1
        /\ cur[p] = Nil
        /\ Root # Nil
        /\ nodes[Root].Left # Nil \/ nodes[Root].Right # Nil

\* C25: in a sequential run, when Put(k, v) returns for a key k that was in
\* the tree, v is the new last element of that Key's Values and nothing else
\* has changed: the root slot, the Key reference and the left and right slot
\* of every node and every other Key record are as before, and the tree has
\* no new node.
C25_PutOnPresentKeyOnlyAppends ==
    LET i == GetBefore(key[Caller]) IN
    (pc[Caller] = "done" /\ op[Caller] = "Put" /\ i # Nil) =>
        /\ Root = pre.Root
        /\ \A n \in DOMAIN pre.nodes : nodes[n] = pre.nodes[n]
        /\ Live \subseteq DOMAIN pre.nodes
        /\ keys[i] = [pre.keys[i] EXCEPT !.Values = Append(@, val[Caller])]
        /\ \A j \in DOMAIN pre.keys \ {i} : keys[j] = pre.keys[j]

\* C25 witness: a Put to a key below the root, which had a value already, has
\* returned
C25_Witness ==
    /\ pc[Caller] = "done"
    /\ op[Caller] = "Put"
    /\ GetBefore(key[Caller]) # Nil
    /\ GetBefore(key[Caller]) # pre.nodes[pre.Root].Key
    /\ Len(keys[GetBefore(key[Caller])].Values) = 2
    /\ Cardinality(Live) >= 3

\* The node that held key k in the tree as it was when the running call was made
RECURSIVE nodeBefore(_, _, _)
nodeBefore(node, k, d) ==
    IF node = Nil \/ d = 0 THEN Nil
    ELSE LET nk == pre.keys[pre.nodes[node].Key].K IN
         IF Compare(k, nk) < 0 THEN nodeBefore(pre.nodes[node].Left, k, d - 1)
         ELSE IF Compare(k, nk) > 0 THEN nodeBefore(pre.nodes[node].Right, k, d - 1)
         ELSE node

NodeBefore(k) == nodeBefore(pre.Root, k, Len(pre.nodes))

\* The smallest stored key greater than k
Successor(k) ==
    CHOOSE s \in Stored :
        /\ Compare(s, k) > 0
        /\ \A t \in Stored : Compare(t, k) > 0 => Compare(s, t) <= 0

\* The running call is the Delete of a key whose node had two children
TwoChildDelete ==
    /\ op[Caller] = "Delete"
    /\ NodeBefore(key[Caller]) # Nil
    /\ pre.nodes[NodeBefore(key[Caller])].Left # Nil
    /\ pre.nodes[NodeBefore(key[Caller])].Right # Nil

\* C26: in a sequential run, when the Delete(k) of a node with two children
\* returns, the node is where it was (in the same slot of its parent or in the
\* root slot, with the same left child) and holds the Key record of the
\* smallest stored key greater than k, with that record unchanged; the node
\* that held that key before is out of the tree, and the key is in one node.
C26_TwoChildDeleteTakesSuccessor ==
    (pc[Caller] = "done" /\ TwoChildDelete) =>
        LET n == NodeBefore(key[Caller])
            s == Successor(key[Caller])
        IN /\ n \in Live
           /\ pre.Root = n => Root = n
           /\ \A m \in DOMAIN pre.nodes :
                 /\ pre.nodes[m].Left = n => nodes[m].Left = n
                 /\ pre.nodes[m].Right = n => nodes[m].Right = n
           /\ nodes[n].Left = pre.nodes[n].Left
           /\ nodes[n].Key = GetBefore(s)
           /\ keys[GetBefore(s)] = pre.keys[GetBefore(s)]
           /\ keys[GetBefore(s)].K = s
           /\ NodeBefore(s) \notin Live
           /\ NodesOf(s) = {n}

\* C26 witness: the Delete of a node with two children has returned, and the
\* successor was not the right child but the node to the left below it
C26_Witness ==
    /\ pc[Caller] = "done"
    /\ TwoChildDelete
    /\ NodeBefore(Successor(key[Caller])) # pre.nodes[NodeBefore(key[Caller])].Right
    /\ nodes[NodeBefore(key[Caller])].Key = GetBefore(Successor(key[Caller]))

\* The goroutines that are between Lock and Unlock of the latch of Key record i
InLatch(i) ==
    {p \in Procs : /\ pc[p] \in {"putAppend", "putUnlock", "removeSplice", "removeUnlock"}
                   /\ nodes[cur[p]].Key = i}

\* The goroutines that called Put or Remove with key k in the concurrent run
CallersOn(k) == {p \in Procs : op[p] \in {"Put", "Remove"} /\ key[p] = k}

\* What the call of p makes of the list vs
Applied(vs, p) ==
    IF op[p] = "Put" THEN Append(vs, val[p]) ELSE WithoutFirst(vs, val[p])

\* The lists that the calls of the goroutines of S make of vs, taken one
\* after the other in any order
RECURSIVE InSomeOrder(_, _)
InSomeOrder(S, vs) ==
    IF S = {} THEN {vs}
    ELSE UNION {InSomeOrder(S \ {p}, Applied(vs, p)) : p \in S}

\* C27: with concurrent Puts and Removes and no Delete, at most one goroutine
\* is between Lock and Unlock of a key's latch, the latch is held exactly
\* while one is, no Unlock finds the latch unlocked, and once all calls have
\* returned every latch is free and the Values of a key that was in the tree
\* are what its Puts and Removes make of the old Values in some sequential order.
C27_LatchMakesAppendAndSpliceAtomic ==
    /\ \A i \in DOMAIN keys :
          /\ Cardinality(InLatch(i)) <= 1
          /\ keys[i].Latch <=> InLatch(i) # {}
    /\ \A p \in Procs : pc[p] # "panic"
    /\ (phase = "run" /\ AllReturned) =>
          \A k \in Stored :
              /\ Get(k) # Nil
              /\ keys[Get(k)].Values \in InSomeOrder(CallersOn(k), ref[k].values)

\* C27 witness: a Put waits at Lock for the latch that a Remove on the same
\* key holds while it cuts a value out
C27_Witness ==
    \E p, q \in Procs :
        /\ pc[p] = "putLock"
        /\ pc[q] = "removeSplice"
        /\ cur[p] = cur[q]
        /\ val[q] \in Elems(keys[nodes[cur[q]].Key].Values)

\* A Put and a Remove on one key have returned, and the Values are what only
\* one of the two orders gives
C27_BothOrders ==
    /\ phase = "run"
    /\ AllReturned
    /\ \E k \in Stored :
          /\ CallersOn(k) = Procs
          /\ Cardinality(InSomeOrder(Procs, ref[k].values)) = 2

\* The step leaves the slot with value old alone when it holds a node, and
\* puts nothing into it but a node that was not in the tree and has no child
SlotOnlyFilled(old, new) ==
    /\ old # Nil => new = old
    /\ (old = Nil /\ new # Nil) =>
          /\ new \notin Live
          /\ nodes'[new].Left = Nil
          /\ nodes'[new].Right = Nil

\* C28: under any interleaving of Puts, no step changes a root, left or right
\* slot that holds a node; a slot that was empty is given only a fresh node
\* without children; and a node of the tree keeps its Key.
C28_PutFillsEmptySlotsOnly ==
    [][/\ SlotOnlyFilled(Root, Root')
       /\ \A n \in Live :
             /\ SlotOnlyFilled(nodes[n].Left, nodes'[n].Left)
             /\ SlotOnlyFilled(nodes[n].Right, nodes'[n].Right)
             /\ nodes'[n].Key = nodes[n].Key]_vars

\* C28 witness: three nodes are in the tree, the last of them put there by a
\* Put that had lost a race for a slot before
C28_Witness ==
    /\ Cardinality(Live) = 3
    /\ \E p \in Procs : pc[p] = "done" /\ op[p] = "Put" /\ retries[p] >= 1

\* C29: with Puts and Gets running concurrently and no Delete, a Get(k) that
\* was called after a Put of k had returned returns the Key record of k,
\* whatever Puts run during its descent.
C29_GetSeesReturnedPut ==
    \A p \in Procs :
        (pc[p] = "done" /\ op[p] = "Get") =>
            /\ rv[p] # Nil
            /\ keys[rv[p]].K = key[p]

\* C29 witness: a Get has found its key below the root while a Put of the
\* other goroutine was under way, on its second round after a failed CAS
C29_Witness ==
    \E p, q \in Procs :
        /\ pc[p] = "done"
        /\ op[p] = "Get"
        /\ rv[p] # Nil
        /\ rv[p] # nodes[Root].Key
        /\ op[q] = "Put"
        /\ Running(q)
        /\ retries[q] >= 1

\* No node is reached from its own left or right child
Acyclic ==
    \A n \in DOMAIN nodes :
        n \notin Subtree(nodes[n].Left) \cup Subtree(nodes[n].Right)

\* Every link leads to a node that was created (line 52) after the node that
\* holds the link
LinksLeadToLaterNodes ==
    \A n \in DOMAIN nodes :
        /\ nodes[n].Left # Nil => nodes[n].Left > n
        /\ nodes[n].Right # Nil => nodes[n].Right > n

\* C30: in every reachable state of any interleaving of Puts and Deletes, the
\* unsynchronised concurrent Deletes included, the left and right links are
\* acyclic, every link leading from a node to a node created later.
C30_LinksForward == Acyclic /\ LinksLeadToLaterNodes

\* C30 as the code has it: in every reachable state of any interleaving of
\* Puts and Deletes the left and right links are acyclic: no node is reached
\* from its own left or right child.
C30_LinksAcyclic == Acyclic

\* C30 witness: two Deletes are under way in the same tree, one of them has
\* given a node with two children the Key of its successor, and a slot has
\* been rewritten by one while the other was below it
C30_Witness ==
    /\ phase = "run"
    /\ \A p \in Procs : op[p] = "Delete" /\ Running(p) /\ stack[p] # <<>>
    /\ \E n \in DOMAIN nodes : nodes[n].Key # n
    /\ \E p \in Procs : Top(p).node \notin Live

\* The Key record i is in the slices that Range, NGet and the four inequality
\* scans return for arguments that its key k satisfies
ScansReturn(i, k) ==
    LET d == Len(nodes) IN
    /\ i \in Elems(rangeKeys(Root, k, k, d))
    /\ i \in Elems(greaterThanEq(Root, k, d))
    /\ i \in Elems(lessThanEq(Root, k, d))
    /\ \A x \in Keys \ {k} :
          /\ i \in Elems(nGet(Root, x, d))
          /\ Compare(k, x) > 0 => i \in Elems(greaterThan(Root, x, d))
          /\ Compare(k, x) < 0 => i \in Elems(lessThan(Root, x, d))
          /\ Compare(k, x) > 0 => i \in Elems(rangeKeys(Root, x, k, d))
          /\ Compare(k, x) < 0 => i \in Elems(rangeKeys(Root, k, x, d))

\* C31: in a sequential run, when Remove(k, v) returns for a key k that was in
\* the tree, k is still in the tree, also when v was its last value: Get(k)
\* returns the same Key record, whose Values are then empty, and Range, NGet
\* and the inequality scans return that record; no other key has gone either.
C31_RemoveKeepsKey ==
    LET i == GetBefore(key[Caller]) IN
    (pc[Caller] = "done" /\ op[Caller] = "Remove" /\ i # Nil) =>
        /\ Get(key[Caller]) = i
        /\ keys[i].K = key[Caller]
        /\ pre.keys[i].Values = <<val[Caller]>> => keys[i].Values = <<>>
        /\ ScansReturn(i, key[Caller])
        /\ \A k \in Keys : GetBefore(k) # Nil => Get(k) = GetBefore(k)

\* C31 witness: Remove has taken the only value of a key below the root
C31_Witness ==
    /\ pc[Caller] = "done"
    /\ op[Caller] = "Remove"
    /\ GetBefore(key[Caller]) # Nil
    /\ GetBefore(key[Caller]) # pre.nodes[pre.Root].Key
    /\ pre.keys[GetBefore(key[Caller])].Values = <<val[Caller]>>
    /\ keys[GetBefore(key[Caller])].Values = <<>>

\* ------------------------------------------- Put, Delete, then Put again
\* One caller fills the tree (a key may be put several times), Deletes keys
\* and then Puts once more; ref keeps what the Puts before the Deletes gave.
Deleted == {h.key : h \in {g \in hist : g.op = "Delete"}}

PutAgain == \E h \in hist : h.op = "Put"

RePutNext ==
    \/ Fill
    \/ \E k \in Keys :
          /\ phase = "run"
          /\ ~PutAgain
          /\ DeleteCall(Caller, k)
          /\ UNCHANGED <<ref, phase, pre>>
    \/ \E k \in Keys, v \in Vals :
          /\ phase = "run"
          /\ ~PutAgain
          /\ Deleted # {}
          /\ PutCall(Caller, k, v)
          /\ UNCHANGED <<ref, phase, pre>>
    \/ Delete(Caller)
    \/ phase = "run" /\ Returned(Caller)

RePutSpec == InitIn("fill") /\ [][RePutNext]_vars

\* C32: in a sequential run, when Put(k, v) returns and it is the first Put
\* after a Delete(k) that removed k with all its values, Get(k) returns a
\* Key record that did not exist before that Put, with key k and Values equal
\* to [v]: none of the values Put before the Delete is in it.
C32_PutAfterDeleteIsFresh ==
    (/\ phase = "run"
     /\ pc[Caller] = "done"
     /\ op[Caller] = "Put"
     /\ key[Caller] \in Deleted) =>
        /\ Get(key[Caller]) = Len(keys)
        /\ keys[Get(key[Caller])] = Key(key[Caller], <<val[Caller]>>)

\* C32 witness: the key had two values before its Delete, the Put after the
\* Delete has returned and the tree holds other keys as well
C32_Witness ==
    /\ phase = "run"
    /\ pc[Caller] = "done"
    /\ op[Caller] = "Put"
    /\ key[Caller] \in Deleted
    /\ Len(ref[key[Caller]].values) = 2
    /\ val[Caller] \in Elems(ref[key[Caller]].values)
    /\ Get(key[Caller]) # Nil
    /\ Cardinality(Live) >= 2

\* The caller is in Range(lo, hi) with lo greater than hi
InEmptyRange ==
    /\ op[Caller] = "Range"
    /\ Compare(key[Caller], val[Caller]) > 0

\* C33: Range(lo, hi) with lo greater than hi returns the empty sequence,
\* whatever the tree holds, and no step of the call, from its start to its
\* return, changes the root, a node or a Key record.
C33_EmptyRangeOnSwappedBounds ==
    /\ [](InEmptyRange /\ pc[Caller] = "done" => Out = <<>>)
    /\ [][InEmptyRange' => Tree' = Tree]_vars

\* C33 witness: Range has returned for bounds lo > hi that are both keys of
\* a tree holding every key, with a key strictly between them
C33_Witness ==
    /\ ScanDone("Range")
    /\ Compare(key[Caller], val[Caller]) > 0
    /\ Stored = Keys
    /\ \E k \in Stored : Compare(val[Caller], k) < 0 /\ Compare(k, key[Caller]) < 0
    /\ Out = <<>>
====
